---- MODULE Spec2Model ----
(***************************************************************************)
(* dustcfg: the provisioning run of src/main.rs (main, setup_services).    *)
(* Strings are TLA+ strings; Len, \o and SubSeq act on them character by   *)
(* character.  External commands are run with Command::output()?, which    *)
(* returns Err only when the program cannot be launched; the exit status   *)
(* of a launched command is never read.                                    *)
(***************************************************************************)
EXTENDS Integers, Sequences, FiniteSets, TLC

VARIABLES
    mpc,        \* position of main: "manifest", "setup", "exit"; of a library
                \* function called alone: "transcode", "decode", "uuid" (and ended)
    exitCode,   \* process exit status, -1 while running
    manifest,   \* endpoints_v1.json: "none", "empty", "written"
    pc,         \* position of setup_services
    svc,        \* index of service_name in the current for loop
    issued,     \* external commands invoked and file operations attempted, in order
    last,       \* outcome of the most recent step
    failedAt,   \* the step whose io::Error was propagated by ?, or "none"
    built,      \* per service: exit status class of cargo install
    units,      \* services whose unit file is in /etc/systemd/system
    settings,   \* dust.settings: whether it can be opened, and its text
    dirs,       \* per service: the override directory
    reader,     \* unread remainder of dust.settings (BufReader)
    line,       \* the line last yielded by reader.lines()
    buf,        \* the bytes last handed to out_file.write
    run,        \* number of the current run of the program
    firstConf,  \* per service: conf content when run 1 finished its override setup
    hexIn,      \* decode_hex_to_utf8: the bytes of text_to_decode
    hexRes,     \* decode_hex_to_utf8: how the call ended, and the decoded bytes
    uuid,       \* generate_v4_uuid: uuid_v4
    x           \* generate_v4_uuid: the loop variable

vars == <<mpc, exitCode, manifest, pc, svc, issued, last, failedAt, built, units,
          settings, dirs, reader, line, buf, run, firstConf, hexIn, hexRes, uuid, x>>

-----------------------------------------------------------------------------
(* Bounds *)

MaxLines == 1     \* raw lines a generated settings text is made of
MaxPieces == 3    \* fragments a transcoder input line is made of
MaxRuns == 2      \* runs of the program in succession
MaxHexChars == 3  \* characters of an input of decode_hex_to_utf8

-----------------------------------------------------------------------------
(* Program constants *)

SERVICES == <<"dustweb", "dustdb">>
NumServices == Len(SERVICES)
Svc == 1..NumServices

Pat == "export "
Rep == "Environment="
Header == "[Service]\n"

-----------------------------------------------------------------------------
(* Strings *)

Suffix(s, i) == SubSeq(s, i, Len(s))

Contains(s, p) == \E i \in 1..(Len(s) - Len(p) + 1) : SubSeq(s, i, i + Len(p) - 1) = p

\* index of the first occurrence of p in s, 0 when there is none
Find(s, p) ==
    LET S == {i \in 1..(Len(s) - Len(p) + 1) : SubSeq(s, i, i + Len(p) - 1) = p}
    IN  IF S = {} THEN 0 ELSE CHOOSE i \in S : \A j \in S : i <= j

\* str::replace: every non-overlapping match, scanning left to right
RECURSIVE replace(_, _, _)
replace(s, from, to) ==
    IF Len(s) < Len(from) THEN s
    ELSE IF SubSeq(s, 1, Len(from)) = from
         THEN to \o replace(Suffix(s, Len(from) + 1), from, to)
         ELSE SubSeq(s, 1, 1) \o replace(Suffix(s, 2), from, to)

\* a transcoder that also rewrites `export` when no space follows it
TranscodeNoSpace(l) == replace(l, "export", "Environment=")

\* line.replace("export ", "Environment=")
Transcode(l) == replace(l, Pat, Rep)

\* format!("{}\n", line.replace(..))
FormatLine(l) == Transcode(l) \o "\n"

\* BufRead::lines: the next line without its "\n" or "\r\n"
NextLine(t) ==
    LET k == Find(t, "\n")
        raw == IF k = 0 THEN t ELSE SubSeq(t, 1, k - 1)
    IN  IF k > 0 /\ Len(raw) > 0 /\ SubSeq(raw, Len(raw), Len(raw)) = "\r"
        THEN SubSeq(raw, 1, Len(raw) - 1)
        ELSE raw

\* what remains to be read after that line
AfterLine(t) ==
    LET k == Find(t, "\n")
    IN  IF k = 0 THEN "" ELSE Suffix(t, k + 1)

\* all lines of a text, as reader.lines() yields them
RECURSIVE Lines(_)
Lines(t) == IF t = "" THEN <<>> ELSE <<NextLine(t)>> \o Lines(AfterLine(t))


-----------------------------------------------------------------------------
(* The environment: files and directories the run reads and changes *)

\* raw lines of dust.settings, ended by "\n" or by "\r\n"
RawLines == {"export A=export B\n", "DUST_PATH=/var/dust\r\n"}

\* a settings text whose last line has no line terminator
Unterminated == "DUST_PATH=/var/dust\r\nexport PORT=3000"

RECURSIVE Texts(_)
Texts(n) == IF n = 0 THEN {""} ELSE {""} \cup {p \o t : p \in RawLines, t \in Texts(n - 1)}

Missing == [exists |-> FALSE, text |-> ""]
SettingsFiles ==
    {Missing} \cup {[exists |-> TRUE, text |-> t] : t \in Texts(MaxLines) \cup {Unterminated}}

\* an override directory /etc/systemd/system/<service>.service.d/: whether it
\* exists, whether it holds a file other than the conf file, whether it holds the
\* conf file, and the conf file's content
Absent == [exists |-> FALSE, stale |-> FALSE, conf |-> FALSE, text |-> ""]
EmptyDir == [exists |-> TRUE, stale |-> FALSE, conf |-> FALSE, text |-> ""]
StaleDir == [exists |-> TRUE, stale |-> TRUE, conf |-> TRUE, text |-> "old\n"]
InitDirs == {Absent, StaleDir}

\* what rm -rf can leave behind when it exits non-zero: the directory with any
\* part of its content
Remnants(d) ==
    IF ~d.exists THEN {d}
    ELSE {[exists |-> TRUE, stale |-> st, conf |-> cf, text |-> IF cf THEN d.text ELSE ""] :
            st \in (IF d.stale THEN BOOLEAN ELSE {FALSE}),
            cf \in (IF d.conf THEN BOOLEAN ELSE {FALSE})}

\* Command::output(): launched and exited 0, launched and exited non-zero, or
\* not launched (the only case that returns Err)
Outcomes == {"ok", "nonzero", "spawnfail"}

\* Write::write returns Ok(n) with n <= buf.len(); a short write is represented
\* by half of the buffer
WriteCounts(b) == {Len(b), Len(b) \div 2}

NoStep == [op |-> "none", svc |-> 0, res |-> "none"]
NoConf == [set |-> FALSE, text |-> ""]
NoResult == [kind |-> "none", v |-> <<>>]

\* the library functions of src/lib.rs are not running
LibIdle ==
    /\ hexIn = <<>>
    /\ hexRes = NoResult
    /\ uuid = ""
    /\ x = 0

LibSame == UNCHANGED <<hexIn, hexRes, uuid, x>>

-----------------------------------------------------------------------------
(* Initial state *)

InitWith(files, dirsets) ==
    /\ mpc = "manifest"
    /\ exitCode = -1
    /\ manifest = "none"
    /\ pc = "idle"
    /\ svc = 1
    /\ issued = <<>>
    /\ last = NoStep
    /\ failedAt = "none"
    /\ built = [s \in Svc |-> "none"]
    /\ units = {}
    /\ settings \in files
    /\ dirs \in dirsets
    /\ reader = ""
    /\ line = ""
    /\ buf = ""
    /\ run = 1
    /\ firstConf = [s \in Svc |-> NoConf]
    /\ LibIdle

Init == InitWith(SettingsFiles, [Svc -> InitDirs])

-----------------------------------------------------------------------------
(* Helpers of the steps *)

Called(op, r) ==
    /\ issued' = Append(issued, <<op, svc>>)
    /\ last' = [op |-> op, svc |-> svc, res |-> r]

\* the ? operator on an Err: setup_services returns it
Raise(op) ==
    /\ pc' = "failed"
    /\ failedAt' = op

Goto(p) ==
    /\ pc' = p
    /\ failedAt' = failedAt

InSetup(p) == mpc = "setup" /\ pc = p

SetDir(d) == dirs' = [dirs EXCEPT ![svc] = d]

WriteTo(b, n) ==
    SetDir([dirs[svc] EXCEPT !.text = dirs[svc].text \o SubSeq(b, 1, n)])


\* variables a step of setup_services never changes
MainSame == UNCHANGED <<mpc, exitCode, manifest, settings, run, hexIn, hexRes, uuid, x>>

\* a reload placed inside the first loop, after each service
AfterSetupAlwaysReload(i) == "reload"

\* end of the body of the first for loop: the next service, or the reload
AfterSetupOf(i) == IF i < NumServices THEN "cargo" ELSE "reload"

\* a second loop that ends after its first service
AfterStartAlwaysDone(i) == "done"

\* a second loop that never ends
AfterStartRepeats(i) == "enable"

\* end of the body of the second for loop: the next service, or Ok(())
AfterStartOf(i) == IF i < NumServices THEN "enable" ELSE "done"

NextIndex(i) == IF i < NumServices THEN i + 1 ELSE 1

-----------------------------------------------------------------------------
(* main *)

\* a manifest write whose Err is dropped: setup_services starts all the same
WriteManifestUnchecked ==
    /\ mpc = "manifest"
    /\ \E r \in {"ok", "create_err", "write_err", "panic"} :
         /\ manifest' = CASE r = "ok" -> "written"
                          [] r = "write_err" -> "empty"
                          [] OTHER -> manifest
         /\ mpc' = IF r = "panic" THEN "exit" ELSE "setup"
         /\ exitCode' = IF r = "panic" THEN 101 ELSE exitCode
         /\ pc' = IF r = "panic" THEN pc ELSE "cargo"
    /\ UNCHANGED <<svc, issued, last, failedAt, built, units, settings, dirs,
                   reader, line, buf, run, firstConf>>
    /\ LibSame

\* write_api_endpoints_to_json_file()?: get_env_var panics when DUST_CHAT_PATH
\* is not set; File::create or write_all may return Err
WriteManifest ==
    /\ mpc = "manifest"
    /\ \E r \in {"ok", "create_err", "write_err", "panic"} :
         /\ manifest' = CASE r = "ok" -> "written"
                          [] r = "write_err" -> "empty"
                          [] OTHER -> manifest
         /\ mpc' = IF r = "ok" THEN "setup" ELSE "exit"
         /\ exitCode' = CASE r = "ok" -> exitCode
                          [] r = "panic" -> 101
                          [] OTHER -> 1
         /\ pc' = IF r = "ok" THEN "cargo" ELSE pc
    /\ UNCHANGED <<svc, issued, last, failedAt, built, units, settings, dirs,
                   reader, line, buf, run, firstConf>>
    /\ LibSame

\* setup_services()? has returned: Ok(()) ends main with status 0, Err with 1
MainReturn ==
    /\ mpc = "setup"
    /\ pc \in {"done", "failed"}
    /\ mpc' = "exit"
    /\ exitCode' = IF pc = "done" THEN 0 ELSE 1
    /\ UNCHANGED <<manifest, pc, svc, issued, last, failedAt, built, units,
                   settings, dirs, reader, line, buf, run, firstConf>>
    /\ LibSame

-----------------------------------------------------------------------------
(* setup_services, first loop *)

\* a build whose exit status is checked: a non-zero status is returned as an Err
CargoInstallChecked ==
    /\ InSetup("cargo")
    /\ \E r \in Outcomes :
         /\ Called("cargo", r)
         /\ IF r = "ok"
            THEN Goto("cp") /\ built' = [built EXCEPT ![svc] = r]
            ELSE Raise("cargo") /\ built' = built
    /\ MainSame
    /\ UNCHANGED <<svc, units, dirs, reader, line, buf, firstConf>>

\* Command::new("cargo").arg("install")...output()?
CargoInstall ==
    /\ InSetup("cargo")
    /\ \E r \in Outcomes :
         /\ Called("cargo", r)
         /\ IF r = "spawnfail"
            THEN Raise("cargo") /\ built' = built
            ELSE Goto("cp") /\ built' = [built EXCEPT ![svc] = r]
    /\ MainSame
    /\ UNCHANGED <<svc, units, dirs, reader, line, buf, firstConf>>

\* a copy after which the removal of the override directory is skipped
CopyUnitSkipsRemove ==
    /\ InSetup("cp")
    /\ \E r \in Outcomes :
         /\ Called("cp", r)
         /\ IF r = "spawnfail" THEN Raise("cp") ELSE Goto("mkdir")
         /\ units' = IF r = "ok" THEN units \cup {svc} ELSE units
    /\ MainSame
    /\ UNCHANGED <<svc, built, dirs, reader, line, buf, firstConf>>

\* a copy whose Err is dropped (output() without ?)
CopyUnitUnchecked ==
    /\ InSetup("cp")
    /\ \E r \in Outcomes :
         /\ Called("cp", r)
         /\ Goto("rm")
         /\ units' = IF r = "ok" THEN units \cup {svc} ELSE units
    /\ MainSame
    /\ UNCHANGED <<svc, built, dirs, reader, line, buf, firstConf>>

\* Command::new("cp")...output()?
CopyUnit ==
    /\ InSetup("cp")
    /\ \E r \in Outcomes :
         /\ Called("cp", r)
         /\ IF r = "spawnfail" THEN Raise("cp") ELSE Goto("rm")
         /\ units' = IF r = "ok" THEN units \cup {svc} ELSE units
    /\ MainSame
    /\ UNCHANGED <<svc, built, dirs, reader, line, buf, firstConf>>

\* Command::new("rm").arg("-rf")...output()?
RemoveDir ==
    /\ InSetup("rm")
    /\ \E r \in Outcomes :
         /\ Called("rm", r)
         /\ IF r = "spawnfail" THEN Raise("rm") ELSE Goto("mkdir")
         /\ CASE r = "ok" -> SetDir(Absent)
              [] r = "nonzero" -> \E d \in Remnants(dirs[svc]) : SetDir(d)
              [] OTHER -> dirs' = dirs
    /\ MainSame
    /\ UNCHANGED <<svc, built, units, reader, line, buf, firstConf>>

\* Command::new("mkdir")...output()?: mkdir exits 0 only when it made the directory
MakeDir ==
    /\ InSetup("mkdir")
    /\ \E r \in Outcomes :
         /\ r = "ok" => ~dirs[svc].exists
         /\ Called("mkdir", r)
         /\ IF r = "spawnfail" THEN Raise("mkdir") ELSE Goto("create")
         /\ IF r = "ok" THEN SetDir(EmptyDir) ELSE dirs' = dirs
    /\ MainSame
    /\ UNCHANGED <<svc, built, units, reader, line, buf, firstConf>>

\* File::create(".../{}.service.d/{}.conf")?: creates or truncates the conf file
CreateConf ==
    /\ InSetup("create")
    /\ \E r \in {"ok", "err"} :
         /\ r = "ok" => dirs[svc].exists
         /\ Called("create", r)
         /\ IF r = "err" THEN Raise("create") ELSE Goto("header")
         /\ IF r = "ok"
            THEN SetDir([dirs[svc] EXCEPT !.conf = TRUE, !.text = ""])
            ELSE dirs' = dirs
    /\ MainSame
    /\ UNCHANGED <<svc, built, units, reader, line, buf, firstConf>>

\* out_file.write(b"[Service]\n")?: the count write returns is dropped
WriteHeader ==
    /\ InSetup("header")
    /\ buf' = Header
    /\ \/ /\ Called("header", "err")
          /\ Raise("header")
          /\ dirs' = dirs
       \/ \E n \in WriteCounts(Header) :
            /\ Called("header", IF n = Len(Header) THEN "ok" ELSE "short")
            /\ Goto("open")
            /\ WriteTo(Header, n)
    /\ MainSame
    /\ UNCHANGED <<svc, built, units, reader, line, firstConf>>

\* File::open("dust.settings")? and BufReader::new
OpenSettings ==
    /\ InSetup("open")
    /\ IF settings.exists
       THEN /\ Called("open", "ok")
            /\ Goto("lines")
            /\ reader' = settings.text
       ELSE /\ Called("open", "err")
            /\ Raise("open")
            /\ reader' = reader
    /\ MainSame
    /\ UNCHANGED <<svc, built, units, dirs, line, buf, firstConf>>

\* one turn of `for line in reader.lines()`: line? then out_file.write(..)?
WriteLine ==
    /\ InSetup("lines")
    /\ reader # ""
    /\ \/ /\ Called("line", "read_err")
          /\ Raise("line")
          /\ UNCHANGED <<dirs, reader, line, buf>>
       \/ /\ line' = NextLine(reader)
          /\ reader' = AfterLine(reader)
          /\ buf' = FormatLine(line')
          /\ \/ /\ Called("line", "err")
                /\ Raise("line")
                /\ dirs' = dirs
             \/ \E n \in WriteCounts(buf') :
                  /\ Called("line", IF n = Len(buf') THEN "ok" ELSE "short")
                  /\ Goto("lines")
                  /\ WriteTo(buf', n)
    /\ MainSame
    /\ UNCHANGED <<svc, built, units, firstConf>>

\* reader.lines() is exhausted; out_file.flush()? (File::flush returns Ok), then
\* the loop moves to the next service
FlushConf ==
    /\ InSetup("lines")
    /\ reader = ""
    /\ Called("flush", "ok")
    /\ Goto(AfterSetupOf(svc))
    /\ svc' = NextIndex(svc)
    /\ firstConf' = IF run = 1
                    THEN [firstConf EXCEPT ![svc] = [set |-> TRUE, text |-> dirs[svc].text]]
                    ELSE firstConf
    /\ MainSame
    /\ UNCHANGED <<built, units, dirs, reader, line, buf>>

-----------------------------------------------------------------------------
(* setup_services, reload and second loop *)

\* a reload whose exit status is checked: a non-zero status is returned as an Err
DaemonReloadChecked ==
    /\ InSetup("reload")
    /\ \E r \in Outcomes :
         /\ issued' = Append(issued, <<"reload", 0>>)
         /\ last' = [op |-> "reload", svc |-> 0, res |-> r]
         /\ IF r = "ok" THEN Goto("enable") ELSE Raise("reload")
    /\ MainSame
    /\ UNCHANGED <<svc, built, units, dirs, reader, line, buf, firstConf>>

\* Command::new("systemctl").arg("daemon-reload").output()?
DaemonReload ==
    /\ InSetup("reload")
    /\ \E r \in Outcomes :
         /\ issued' = Append(issued, <<"reload", 0>>)
         /\ last' = [op |-> "reload", svc |-> 0, res |-> r]
         /\ IF r = "spawnfail" THEN Raise("reload") ELSE Goto("enable")
    /\ MainSame
    /\ UNCHANGED <<svc, built, units, dirs, reader, line, buf, firstConf>>

\* Command::new("systemctl").arg("enable").arg(&service_name).output()?
EnableService ==
    /\ InSetup("enable")
    /\ \E r \in Outcomes :
         /\ Called("enable", r)
         /\ IF r = "spawnfail" THEN Raise("enable") ELSE Goto("start")
    /\ MainSame
    /\ UNCHANGED <<svc, built, units, dirs, reader, line, buf, firstConf>>

\* Command::new("systemctl").arg("start").arg(&service_name).output()?
StartService ==
    /\ InSetup("start")
    /\ \E r \in Outcomes :
         /\ Called("start", r)
         /\ IF r = "spawnfail"
            THEN Raise("start") /\ svc' = svc
            ELSE Goto(AfterStartOf(svc)) /\ svc' = NextIndex(svc)
    /\ MainSame
    /\ UNCHANGED <<built, units, dirs, reader, line, buf, firstConf>>

-----------------------------------------------------------------------------
(* Specification of one run *)

Next ==
    \/ WriteManifest
    \/ CargoInstall
    \/ CopyUnit
    \/ RemoveDir
    \/ MakeDir
    \/ CreateConf
    \/ WriteHeader
    \/ OpenSettings
    \/ WriteLine
    \/ FlushConf
    \/ DaemonReload
    \/ EnableService
    \/ StartService
    \/ MainReturn

Spec == Init /\ [][Next]_vars


-----------------------------------------------------------------------------
(* Specification of runs in succession: the program is started again on the
   files the previous run left *)

Rerun ==
    /\ mpc = "exit"
    /\ run < MaxRuns
    /\ run' = run + 1
    /\ mpc' = "manifest"
    /\ exitCode' = -1
    /\ pc' = "idle"
    /\ svc' = 1
    /\ issued' = <<>>
    /\ last' = NoStep
    /\ failedAt' = "none"
    /\ built' = [s \in Svc |-> "none"]
    /\ reader' = ""
    /\ line' = ""
    /\ buf' = ""
    /\ UNCHANGED <<manifest, units, settings, dirs, firstConf>>
    /\ LibSame

\* every run reads the same one-line settings file
OneLine == [exists |-> TRUE, text |-> "export PORT=3000\n"]

InitRerun == InitWith({OneLine}, {[s \in Svc |-> Absent], [s \in Svc |-> StaleDir]})

NextRerun == Next \/ Rerun

SpecRerun == InitRerun /\ [][NextRerun]_vars

-----------------------------------------------------------------------------
(* Specification of the transcoder alone: line 58 applied to one line *)

Fragments == {"export ", "export", "xport ", "K=v", " "}

RECURSIVE TLines(_)
TLines(n) == IF n = 0 THEN {""} ELSE {""} \cup {f \o t : f \in Fragments, t \in TLines(n - 1)}

InitT ==
    /\ mpc = "transcode"
    /\ exitCode = -1
    /\ manifest = "none"
    /\ pc = "idle"
    /\ svc = 1
    /\ issued = <<>>
    /\ last = NoStep
    /\ failedAt = "none"
    /\ built = [s \in Svc |-> "none"]
    /\ units = {}
    /\ settings = Missing
    /\ dirs = [s \in Svc |-> Absent]
    /\ reader = ""
    /\ line \in TLines(MaxPieces)
    /\ buf = ""
    /\ run = 1
    /\ firstConf = [s \in Svc |-> NoConf]
    /\ LibIdle

TranscodeLine ==
    /\ mpc = "transcode"
    /\ buf' = FormatLine(line)
    /\ mpc' = "transcoded"
    /\ UNCHANGED <<exitCode, manifest, pc, svc, issued, last, failedAt, built, units,
                   settings, dirs, reader, line, run, firstConf>>
    /\ LibSame

NextT == TranscodeLine

SpecT == InitT /\ [][NextT]_vars

-----------------------------------------------------------------------------
(* Reading the record of issued steps *)

Idx == 1..Len(issued)

Count(op) == Cardinality({k \in Idx : issued[k][1] = op})

CountOf(op, s) == Cardinality({k \in Idx : issued[k] = <<op, s>>})

Did(op, s) == \E k \in Idx : issued[k] = <<op, s>>

SetupOps == {"cargo", "cp", "rm", "mkdir", "create", "header", "open", "flush"}
DirOps == {"rm", "mkdir", "create", "header", "line"}
ErrResults == {"spawnfail", "err", "read_err"}

\* a step of setup_services has just been taken
Stepped == issued' # issued

\* the override setup of service s has completed without an Err in this run
SetupDone(s) == Did("flush", s)


\* the transcoded lines of a settings text, one after the other
RECURSIVE FormatAll(_)
FormatAll(ls) == IF ls = <<>> THEN "" ELSE FormatLine(Head(ls)) \o FormatAll(Tail(ls))

\* s with only its first occurrence of from replaced by to
ReplaceFirst(s, from, to) ==
    LET k == Find(s, from)
    IN  IF k = 0 THEN s ELSE SubSeq(s, 1, k - 1) \o to \o Suffix(s, k + Len(from))

\* positions of daemon-reload in the record
Reloads == {k \in Idx : issued[k][1] = "reload"}

\* the steps recorded before position k
Before(k) == {issued[j] : j \in 1..(k - 1)}

\* daemon-reload comes after every setup step of every service, and every
\* enable and start comes after a daemon-reload
ReloadOrdered ==
    /\ \A k \in Reloads : (SetupOps \X Svc) \subseteq Before(k)
    /\ \A k \in Idx : issued[k][1] \in {"enable", "start"} => \E r \in Reloads : r < k

-----------------------------------------------------------------------------
(* C1 *)

\* C1 as stated: every run of setup_services, however it ends, has issued
\* daemon-reload exactly once, after all setup steps and before any enable/start.
C1_ReloadExactlyOnceInEveryRun ==
    pc \in {"done", "failed"} => (Cardinality(Reloads) = 1 /\ ReloadOrdered)

\* C1 amended: daemon-reload is invoked at most once in a run, and exactly once
\* as soon as the setup of every service has completed and the reload step has
\* been taken (so in every run that reaches Done); it comes only after the build,
\* unit-install and override-setup steps of every service, and no enable or
\* start is invoked before it.
C1_ReloadOnceAfterSetup ==
    /\ Cardinality(Reloads) <= 1
    /\ ((\A s \in Svc : SetupDone(s)) /\ pc # "reload") => Cardinality(Reloads) = 1
    /\ pc \in {"enable", "start", "done"} => Cardinality(Reloads) = 1
    /\ ReloadOrdered

C1_Witness ==
    /\ pc = "done"
    /\ Count("reload") = 1
    /\ \A s \in Svc : Did("start", s)

-----------------------------------------------------------------------------
(* C2 *)

\* C2: when opening dust.settings fails, no override directory has been removed
\* or created and no conf file has been created or written, and none has changed.
C2_MissingSettingsTouchesNothing ==
    failedAt = "open" => \A k \in Idx : issued[k][1] \notin DirOps

-----------------------------------------------------------------------------
(* C3 *)

\* C3: a step that returns an Err moves the run to Failed at once; in Failed no
\* further step is taken and nothing changes; a failed run exits non-zero; exit
\* status 0 and Done occur only when no step returned an Err.
C3_FatalErrorStopsRun ==
    /\ [][(Stepped /\ last'.res \in ErrResults) =>
            (pc' = "failed" /\ failedAt' = last'.op)]_vars
    /\ [][pc = "failed" =>
            UNCHANGED <<pc, svc, issued, last, failedAt, built, units, dirs>>]_vars
    /\ [](pc = "failed" => last.res \in ErrResults /\ failedAt = last.op)
    /\ []((mpc = "exit" /\ pc = "failed") => exitCode = 1)
    /\ []((mpc = "exit" /\ pc = "idle") => (exitCode \in {1, 101} /\ issued = <<>>))
    /\ [](pc = "done" => (failedAt = "none" /\ last.res \notin ErrResults))
    /\ [](exitCode = 0 => (pc = "done" /\ mpc = "exit"))

C3_Witness ==
    /\ mpc = "exit"
    /\ exitCode = 1
    /\ failedAt = "mkdir"
    /\ last = [op |-> "mkdir", svc |-> 1, res |-> "spawnfail"]
    /\ ~Did("create", 1)
    /\ ~Did("cargo", 2)

-----------------------------------------------------------------------------
(* C4 *)

\* C4: a unit-file copy that fails (cp exits non-zero: source missing, permission
\* denied) is fatal, so the run is in Failed right after it.
C4_UnitInstallFailureIsFatal ==
    (last.op = "cp" /\ last.res = "nonzero") => pc = "failed"

-----------------------------------------------------------------------------
(* C5 *)

\* C5: for a line that contains `export `, the transcoded line is the input with
\* only the first occurrence replaced by `Environment=`.
C5_OnlyFirstOccurrenceReplaced ==
    (mpc = "transcoded" /\ Contains(line, Pat)) =>
        buf = ReplaceFirst(line, Pat, Rep) \o "\n"

-----------------------------------------------------------------------------
(* C6 *)

\* C6: for a line that does not contain `export `, the transcoded line handed to
\* the conf file is the input line itself, followed by the newline.
C6_NoMarkerUnchanged ==
    (mpc = "transcoded" /\ ~Contains(line, Pat)) => buf = line \o "\n"

C6_Witness ==
    /\ mpc = "transcoded"
    /\ ~Contains(line, Pat)
    /\ Contains(line, "export")
    /\ Contains(line, " ")
    /\ buf = line \o "\n"

-----------------------------------------------------------------------------
(* C7 *)

\* C7: once the override setup of a service has completed without error, its
\* conf file is the header followed by one newline-terminated transcoded line per
\* settings line, in the order of the settings file.
C7_ConfIsHeaderThenLines ==
    \A s \in Svc : SetupDone(s) =>
        (dirs[s].conf /\ dirs[s].text = Header \o FormatAll(Lines(settings.text)))

-----------------------------------------------------------------------------
(* C8 *)

\* C8: when the override setup of a service completes in a first and in a second
\* run on the same settings file, the conf file has the same content after both.
C8_SecondRunIdentical ==
    \A s \in Svc : (run = 2 /\ SetupDone(s) /\ firstConf[s].set) =>
        (dirs[s].conf /\ dirs[s].text = firstConf[s].text)

-----------------------------------------------------------------------------
(* C9 *)

\* C9: once the override setup of a service has completed without error, its
\* override directory exists and holds the conf file and nothing else.
C9_DirHoldsOnlyConf ==
    \A s \in Svc : SetupDone(s) =>
        (dirs[s].exists /\ dirs[s].conf /\ ~dirs[s].stale)

-----------------------------------------------------------------------------
(* C10 *)

\* every step of the run has been taken for every service
AllIssued ==
    /\ \A s \in Svc : \A op \in SetupOps \cup {"enable", "start"} : Did(op, s)
    /\ Count("reload") = 1

\* C10: a build that exits non-zero is followed by the unit install of the same
\* service and raises nothing; the run fails at the build step only when cargo
\* cannot be launched; a run that reaches Done has taken every step, whatever
\* the builds' exit statuses.
C10_BuildStatusIgnored ==
    /\ [][(Stepped /\ last'.op = "cargo" /\ last'.res = "nonzero") =>
            (pc' = "cp" /\ failedAt' = "none" /\ svc' = svc)]_vars
    /\ [](failedAt = "cargo" => last.res = "spawnfail")
    /\ [](pc = "done" => AllIssued)

C10_Witness ==
    /\ mpc = "exit"
    /\ exitCode = 0
    /\ pc = "done"
    /\ \A s \in Svc : built[s] = "nonzero"
    /\ AllIssued


-----------------------------------------------------------------------------
(* Specification of one run whose steps all return: the program is sequential,
   so a step that can be taken is taken *)

SpecLive == Spec /\ WF_vars(Next)

-----------------------------------------------------------------------------
(* C13 *)

\* what may directly follow a step of the first loop
SetupFollows(a, b) ==
    LET op == a[1]
        s == a[2]
    IN  CASE op = "cargo" -> b = <<"cp", s>>
          [] op = "cp" -> b = <<"rm", s>>
          [] op = "rm" -> b = <<"mkdir", s>>
          [] op = "mkdir" -> b = <<"create", s>>
          [] op = "create" -> b = <<"header", s>>
          [] op = "header" -> b = <<"open", s>>
          [] op \in {"open", "line"} -> b \in {<<"line", s>>, <<"flush", s>>}
          [] op = "flush" -> IF s < NumServices THEN b = <<"cargo", s + 1>>
                                               ELSE b = <<"reload", 0>>
          [] OTHER -> TRUE

\* C13: the first step of a run is the build of dustweb; within a service the
\* steps follow one another as build, unit install, rm, mkdir, create conf, write
\* header, open settings, write lines, flush; the build of the next service comes
\* directly after the flush of the current one.
C13_SetupOrder ==
    /\ issued # <<>> => issued[1] = <<"cargo", 1>>
    /\ \A k \in 1..(Len(issued) - 1) : SetupFollows(issued[k], issued[k + 1])
    /\ \A s \in Svc : (pc \in {"cargo", "cp", "rm", "mkdir", "create", "header", "open", "lines"}
                        /\ s < svc) => SetupDone(s)

C13_Witness ==
    /\ pc = "reload"
    /\ \A s \in Svc : SetupDone(s) /\ Did("line", s)
    /\ Len(issued) > 8 * NumServices

-----------------------------------------------------------------------------
(* C14 *)

\* what may directly follow the reload and the steps of the second loop
ActivateFollows(a, b) ==
    LET op == a[1]
        s == a[2]
    IN  CASE op = "reload" -> b = <<"enable", 1>>
          [] op = "enable" -> b = <<"start", s>>
          [] op = "start" -> s < NumServices /\ b = <<"enable", s + 1>>
          [] OTHER -> TRUE

\* C14: after the reload come enable dustweb, start dustweb, enable dustdb, start
\* dustdb, in this order and with nothing in between; a run that reaches Done
\* ends with exactly these calls.
C14_ActivationOrder ==
    /\ \A k \in 1..(Len(issued) - 1) : ActivateFollows(issued[k], issued[k + 1])
    /\ pc = "done" =>
         /\ Len(issued) > 2 * NumServices
         /\ issued[Len(issued) - 2 * NumServices] = <<"reload", 0>>
         /\ \A s \in Svc :
              /\ issued[Len(issued) - 2 * (NumServices - s) - 1] = <<"enable", s>>
              /\ issued[Len(issued) - 2 * (NumServices - s)] = <<"start", s>>

C14_Witness ==
    /\ pc = "done"
    /\ issued[Len(issued)] = <<"start", NumServices>>
    /\ Did("enable", 1)

-----------------------------------------------------------------------------
(* C15 *)

OnceOps == SetupOps \cup {"enable", "start"}

\* C15: no step is ever taken twice for a service and daemon-reload is never
\* invoked twice; in a run that has reached Done every step has been taken once
\* for every service, daemon-reload once, and one line written per settings line.
C15_EachStepOnce ==
    /\ \A s \in Svc : \A op \in OnceOps : CountOf(op, s) <= 1
    /\ Count("reload") <= 1
    /\ pc = "done" =>
         /\ \A s \in Svc : \A op \in OnceOps : CountOf(op, s) = 1
         /\ \A s \in Svc : CountOf("line", s) = Len(Lines(settings.text))
         /\ Count("reload") = 1

C15_Witness ==
    /\ pc = "done"
    /\ settings.text = Unterminated
    /\ \A s \in Svc : CountOf("line", s) = 2 /\ CountOf("start", s) = 1

-----------------------------------------------------------------------------
(* C16 *)

ManagerOps == {"reload", "enable", "start"}

\* C16 as stated: after a service-manager call that exited non-zero or could not
\* be launched, the run is not in Failed.
C16_ManagerFailureNeverFails ==
    (last.op \in ManagerOps /\ last.res \in {"nonzero", "spawnfail"}) => pc # "failed"

\* C16 amended: a service-manager call that exits non-zero raises nothing and is
\* followed by the next call of the sequence; a service-manager call that cannot
\* be launched moves the run to Failed and no later call is made; the run fails at
\* a service-manager step for no other reason.
C16_ManagerExitStatusIgnored ==
    /\ [][(Stepped /\ last'.op \in ManagerOps /\ last'.res = "nonzero") =>
            /\ failedAt' = "none"
            /\ pc' = CASE last'.op = "reload" -> "enable"
                       [] last'.op = "enable" -> "start"
                       [] OTHER -> AfterStartOf(svc)]_vars
    /\ [][(Stepped /\ last'.op \in ManagerOps /\ last'.res = "spawnfail") =>
            (pc' = "failed" /\ failedAt' = last'.op)]_vars
    /\ [](failedAt \in ManagerOps => (last.res = "spawnfail" /\ last.op = failedAt))

C16_Witness ==
    /\ pc = "done"
    /\ mpc = "exit"
    /\ exitCode = 0
    /\ last = [op |-> "start", svc |-> NumServices, res |-> "nonzero"]

-----------------------------------------------------------------------------
(* C17 *)

CommandOps == {"cargo", "cp", "rm", "mkdir", "reload", "enable", "start"}

\* number of external commands invoked so far
Commands == Cardinality({k \in Idx : issued[k][1] \in CommandOps})

\* C17: a run invokes at most 13 external commands, and once setup_services has
\* started it ends in Done or in Failed.
C17_Terminates ==
    /\ [](Commands <= 13)
    /\ (mpc = "setup") ~> (pc \in {"done", "failed"})

C17_Witness ==
    /\ pc = "done"
    /\ Commands = 13

-----------------------------------------------------------------------------
(* C18 *)

\* C18: setup_services runs, and steps are issued, only when the manifest has been
\* written; when the manifest write returned an Err main has exited with a
\* non-zero status and no step has been issued.
C18_ManifestFirst ==
    /\ (mpc = "setup" \/ pc # "idle" \/ issued # <<>>) => manifest = "written"
    /\ manifest # "written" => (pc = "idle" /\ issued = <<>> /\ exitCode # 0)
    /\ (mpc = "exit" /\ pc = "idle") => (exitCode \in {1, 101} /\ issued = <<>>)

C18_Witness ==
    /\ mpc = "exit"
    /\ exitCode = 1
    /\ manifest = "empty"
    /\ pc = "idle"
    /\ issued = <<>>


-----------------------------------------------------------------------------
(* decode_hex_to_utf8 (src/lib.rs), called alone.  A &str is the sequence of
   its UTF-8 bytes. *)

\* the bytes of the ASCII hexadecimal digits 0-9, A-F, a-f
HexDigitBytes == (48..57) \cup (65..70) \cup (97..102)

\* char::to_digit(16) of an ASCII hexadecimal digit
DigitValue(c) ==
    CASE c \in 48..57 -> c - 48
      [] c \in 65..70 -> c - 55
      [] c \in 97..102 -> c - 87

\* str::is_char_boundary at byte offset i: the start, the end, or a byte that is
\* not a UTF-8 continuation byte
IsCharBoundary(b, i) ==
    \/ i = 0
    \/ i = Len(b)
    \/ i < Len(b) /\ b[i + 1] \notin 128..191

\* &text_to_decode[i..j] does not panic
SliceOk(b, i, j) == j <= Len(b) /\ IsCharBoundary(b, i) /\ IsCharBoundary(b, j)

\* u8::from_str_radix(p, 16) of a two-byte slice: a leading `+` is accepted and
\* dropped, then every byte must be a digit; -1 stands for Err(ParseIntError)
from_str_radix(p) ==
    LET digits == IF p[1] = 43 THEN Tail(p) ELSE p
    IN  IF \E k \in 1..Len(digits) : digits[k] \notin HexDigitBytes
        THEN -1
        ELSE IF Len(digits) = 1
             THEN DigitValue(digits[1])
             ELSE 16 * DigitValue(digits[1]) + DigitValue(digits[2])

\* (0..len).step_by(2).map(..).collect(): the pairs are taken in order, the
\* first Err ends the collection, an out-of-range or misaligned slice panics
RECURSIVE DecodeFrom(_, _, _)
DecodeFrom(b, i, acc) ==
    IF i >= Len(b) THEN [kind |-> "ok", v |-> acc]
    ELSE IF ~SliceOk(b, i, i + 2) THEN [kind |-> "panic", v |-> <<>>]
    ELSE LET r == from_str_radix(SubSeq(b, i + 1, i + 2))
         IN  IF r < 0 THEN [kind |-> "err", v |-> <<>>]
             ELSE DecodeFrom(b, i + 2, Append(acc, r))

\* the call: Ok (of the lossy UTF-8 text of v), Err(InvalidInput), or a panic
decode_hex_to_utf8(b) == DecodeFrom(b, 0, <<>>)

\* characters of the inputs: `7`, `A`, `f`, `g`, `+` and the two-byte `é`
HexChars == {<<55>>, <<65>>, <<102>>, <<103>>, <<43>>, <<195, 169>>}

RECURSIVE HexTexts(_)
HexTexts(n) ==
    IF n = 0 THEN {<<>>} ELSE {<<>>} \cup {c \o t : c \in HexChars, t \in HexTexts(n - 1)}

\* the main program at rest
ProgramIdle ==
    /\ exitCode = -1
    /\ manifest = "none"
    /\ pc = "idle"
    /\ svc = 1
    /\ issued = <<>>
    /\ last = NoStep
    /\ failedAt = "none"
    /\ built = [s \in Svc |-> "none"]
    /\ units = {}
    /\ settings = Missing
    /\ dirs = [s \in Svc |-> Absent]
    /\ reader = ""
    /\ line = ""
    /\ buf = ""
    /\ run = 1
    /\ firstConf = [s \in Svc |-> NoConf]

ProgramSame ==
    UNCHANGED <<exitCode, manifest, pc, svc, issued, last, failedAt, built, units,
                settings, dirs, reader, line, buf, run, firstConf>>

InitHex ==
    /\ mpc = "decode"
    /\ ProgramIdle
    /\ hexIn \in HexTexts(MaxHexChars)
    /\ hexRes = NoResult
    /\ uuid = ""
    /\ x = 0

DecodeCall ==
    /\ mpc = "decode"
    /\ hexRes' = decode_hex_to_utf8(hexIn)
    /\ mpc' = "decoded"
    /\ ProgramSame
    /\ UNCHANGED <<hexIn, uuid, x>>

NextHex == DecodeCall

SpecHex == InitHex /\ [][NextHex]_vars

-----------------------------------------------------------------------------
(* C11 *)

\* an even number of bytes, each an ASCII hexadecimal digit
WellFormedHex(b) == Len(b) % 2 = 0 /\ \A k \in 1..Len(b) : b[k] \in HexDigitBytes

\* C11: for an input that is not a sequence of two-digit hexadecimal pairs the
\* call returns Err(InvalidInput): it neither panics nor returns Ok.
C11_MalformedIsErr ==
    (mpc = "decoded" /\ ~WellFormedHex(hexIn)) => hexRes.kind = "err"


-----------------------------------------------------------------------------
(* generate_v4_uuid (src/lib.rs), called alone *)

\* & and | on u8, bit by bit
RECURSIVE BitAnd(_, _)
BitAnd(a, b) ==
    IF a = 0 \/ b = 0 THEN 0
    ELSE 2 * BitAnd(a \div 2, b \div 2) + (IF a % 2 = 1 /\ b % 2 = 1 THEN 1 ELSE 0)

RECURSIVE BitOr(_, _)
BitOr(a, b) ==
    IF a = 0 THEN b
    ELSE IF b = 0 THEN a
    ELSE 2 * BitOr(a \div 2, b \div 2) + (IF a % 2 = 1 \/ b % 2 = 1 THEN 1 ELSE 0)

\* (n & 0b00001111) | 0b01000000
SetVersion(n) == BitOr(BitAnd(n, 15), 64)

\* a variant byte whose high bits are set without clearing bit 6
SetVariantNoClear(n) == BitOr(n, 128)

\* (n & 0b00111111) | 0b10000000
SetVariant(n) == BitOr(BitAnd(n, 63), 128)

\* the two `if x == ..` adjustments of the loop body, in their order
Adjust(i, n) ==
    LET n1 == IF i = 6 THEN SetVersion(n) ELSE n
    IN  IF i = 8 THEN SetVariant(n1) ELSE n1

\* the four `if uuid_v4.len() == ..` pushes of the loop body, in their order
Hyphenate(u) ==
    LET u1 == IF Len(u) = 8 THEN u \o "-" ELSE u
        u2 == IF Len(u1) = 8 + 4 + 1 THEN u1 \o "-" ELSE u1
        u3 == IF Len(u2) = 8 + 4 + 4 + 2 THEN u2 \o "-" ELSE u2
    IN  IF Len(u3) = 8 + 4 + 4 + 4 + 3 THEN u3 \o "-" ELSE u3

HexDigit(d) == SubSeq("0123456789abcdef", d + 1, d + 1)

\* format!("{:02x}", n)
Hex2(n) == HexDigit(n \div 16) \o HexDigit(n % 16)

\* values of rng.gen::<u8>(): every pair of the bits 4 and 5 where the variant
\* is set, every high nibble class where the version is set, two values elsewhere
RandomBytes(i) ==
    IF i \in {6, 8} THEN {0, 31, 42, 255} ELSE {10, 245}

InitUuid ==
    /\ mpc = "uuid"
    /\ ProgramIdle
    /\ hexIn = <<>>
    /\ hexRes = NoResult
    /\ uuid = ""
    /\ x = 0

\* one turn of `for x in 0..16`
UuidByte ==
    /\ mpc = "uuid"
    /\ x < 16
    /\ \E n \in RandomBytes(x) :
         uuid' = Hyphenate(uuid) \o Hex2(Adjust(x, n))
    /\ x' = x + 1
    /\ UNCHANGED <<mpc, hexIn, hexRes>>
    /\ ProgramSame

\* the loop has ended: uuid_v4 is returned
UuidReturn ==
    /\ mpc = "uuid"
    /\ x = 16
    /\ mpc' = "uuid_done"
    /\ UNCHANGED <<hexIn, hexRes, uuid, x>>
    /\ ProgramSame

NextUuid == UuidByte \/ UuidReturn

SpecUuid == InitUuid /\ [][NextUuid]_vars

-----------------------------------------------------------------------------
(* C12 *)

\* the character of u at the 0-based index i
CharAt(u, i) == SubSeq(u, i + 1, i + 1)

LowerHex == {HexDigit(d) : d \in 0..15}

\* C12: the returned string has 36 characters, a hyphen exactly at the indices 8,
\* 13, 18 and 23, lowercase hexadecimal digits everywhere else, `4` at index 14
\* and one of `8`, `9`, `a`, `b` at index 19.
C12_UuidShape ==
    mpc = "uuid_done" =>
        /\ Len(uuid) = 36
        /\ \A i \in 0..35 :
             IF i \in {8, 13, 18, 23} THEN CharAt(uuid, i) = "-"
                                      ELSE CharAt(uuid, i) \in LowerHex
        /\ CharAt(uuid, 14) = "4"
        /\ CharAt(uuid, 19) \in {"8", "9", "a", "b"}

C12_Witness ==
    /\ mpc = "uuid_done"
    /\ Len(uuid) = 36
    /\ CharAt(uuid, 14) = "4"
    /\ CharAt(uuid, 15) = "f"
    /\ CharAt(uuid, 19) = "a"
    /\ CharAt(uuid, 0) = "f"

=============================================================================
